---- MODULE Spec2Model ----
(***************************************************************************)
(* The web chat backend of openalgo-mcp (src/client/app.py): the four      *)
(* process-wide registries, the MCPClient transport objects, and one       *)
(* websocket_endpoint task per browser connection.  Every action is the    *)
(* code a task runs from one suspension point (await) to the next.         *)
(* The tools of the MCP server (src/server/server.py) are modelled as one   *)
(* table and one action that runs an invocation from call to return.       *)
(* get_status (/api/status) runs beside the websocket tasks.               *)
(* main of the terminal client (src/client/trading_agent.py) is a program  *)
(* of its own.                                                             *)
(***************************************************************************)
EXTENDS Integers, Sequences, FiniteSets, TLC

\* ------------------------------------------------------------- bounds
\* payloads the browsers send, all connections together
MaxMsgs == 1
\* responses with content in one reply of the agent
MaxChunks == 2
\* payloads the browser sends when there is one connection only
MaxSoloMsgs == 3
\* requests for /api/status
MaxStatus == 2
\* queries typed into the terminal client
MaxQueries == 2
\* the tools are run on the first MaxStrings strings and on lists of at most
\* MaxEntries entries
MaxStrings == 4
MaxEntries == 2

None == "None"
NoObj == 0
NoHistory == [present |-> FALSE, messages |-> <<>>]
ChatHistory == [present |-> TRUE, messages |-> <<>>]
NotFailed == {"not failed"}
\* two websocket connections, open at the same time or one after the other
Conns == {1, 2}
Objs == Conns
Clients == {"c1", "c2"}
\* client identifiers are interchangeable: connection 1 has the one called c1
ClientsOf(w) == IF w = 1 THEN {"c1"} ELSE Clients
\* the content of the i-th response of a reply, and of the n-th payload
Texts(i) == "chunk " \o ToString(i)
UserTexts(n) == "query " \o ToString(n)

\* hist is a history variable: what has happened on each connection since it was
\* opened.  The program does not read it.  shutdown is the shutdown_event task;
\* tool is the invocation of a tool of the MCP server (src/server/server.py).
VARIABLES active_connections, mcp_clients, agents, chat_histories, client, conn,
          hist, shutdown, tool, status, main

vars ==
    <<active_connections, mcp_clients, agents, chat_histories, client, conn, hist,
      shutdown, tool, status, main>>

\* ------------------------------------------------------------ messages
Message(r, c) == [role |-> r, content |-> c]
Json(r, c, p) == [role |-> r, content |-> c, partial |-> p]

WelcomeText == <<"Welcome to OpenAlgo Trading Assistant!">>
ProcessingText == <<"Processing your request...">>
InvalidFormatText == <<"Error: Invalid message format.">>
ErrorText == <<"Error: ">>
AgentErrorText == <<"I encountered an error while processing your request: ">>

\* str.strip() on a sequence of characters
RECURSIVE StripLeft(_)
StripLeft(s) == IF s # <<>> /\ Head(s) = " " THEN StripLeft(Tail(s)) ELSE s

RECURSIVE StripRight(_)
StripRight(s) ==
    IF s # <<>> /\ s[Len(s)] = " " THEN StripRight(SubSeq(s, 1, Len(s) - 1)) ELSE s

Strip(s) == StripRight(StripLeft(s))

\* What the browser may put on the wire as its n-th payload: text that is no
\* JSON, JSON that is no object, and objects with an absent, blank or non-blank
\* "content".
Payloads(n) ==
    {[kind |-> "malformed"], [kind |-> "nonobject"], [kind |-> "object"]}
    \cup {[kind |-> "object", content |-> t] :
            t \in {<<>>, <<" ">>, <<UserTexts(n)>>, <<" ", UserTexts(n), " ">>}}

\* message.get("content", "")
Content(p) == IF "content" \in DOMAIN p THEN p.content ELSE <<>>

\* ------------------------------------------------------------- objects
FreshClient ==
    [streams_context |-> FALSE, session_context |-> FALSE, session |-> FALSE,
     connected |-> FALSE, open |-> FALSE, opens |-> 0, exit_calls |-> 0]

IdleConn ==
    [pc |-> "idle", cid |-> None, gone |-> FALSE, out |-> <<>>, received |-> 0,
     full_response |-> <<>>, has_streamed_content |-> FALSE, response |-> <<>>,
     chunks |-> <<>>, whole |-> FALSE, payload |-> None, user_query |-> <<>>,
     cl |-> NoObj, after |-> None, mcp_client |-> NoObj, failed |-> NotFailed]

is_connected(o) == client[o].connected /\ client[o].session

\* shutdown_event before it runs.  todo: the items of list(mcp_clients.items())
\* not yet visited; item: the one being disconnected; listed and raised
\* (history): all the items of the list, and the client identifiers whose
\* cleanup hit an exception
NoShutdown ==
    [pc |-> "idle", todo |-> {}, item |-> <<>>, listed |-> {}, raised |-> {}]

\* no tool has been invoked
NoCall ==
    [pc |-> "idle", name |-> None, args |-> <<>>, items |-> <<>>,
     calls |-> <<>>, broker |-> None, ret |-> None, raised |-> FALSE]

\* no request for /api/status has been made.  temp_client: the MCPClient of
\* line 430; connected: the local of line 431; probe (history): whether
\* connect_to_sse_server returned ("ok") or raised; exit_raised (history): an
\* __aexit__ of the temporary client raised
NoStatus ==
    [pc |-> "idle", temp_client |-> FreshClient, connected |-> FALSE,
     ret |-> None, after |-> None, calls |-> 0, probe |-> None,
     exit_raised |-> FALSE]

\* main of the terminal client before it runs.  mcp_client: the MCPClient of
\* trading_agent.py line 225; console: what was printed of the conversation;
\* asked, printed: the queries taken, the responses of the current stream;
\* connected, disconnects, exit (history): connect_to_sse_server returned, the
\* calls of mcp_client.disconnect(), the path on which main ended
NoMain ==
    [pc |-> "start",
     mcp_client |-> [streams_context |-> FALSE, session_context |-> FALSE,
                     session |-> FALSE, open |-> FALSE],
     user_query |-> None, asked |-> 0, printed |-> 0, console |-> <<>>,
     connected |-> FALSE, disconnects |-> 0, exit |-> None]

Cur ==
    [ac |-> active_connections, mc |-> mcp_clients, ag |-> agents,
     ch |-> chat_histories, ob |-> client, cn |-> conn, sd |-> shutdown,
     tl |-> tool, st |-> status, mn |-> main]

\* asked: the user queries taken from this connection, in order; errors: one of
\* the except clauses of lines 520, 534, 540 has run; silent: a reply ended
\* without any content
NoHist == [asked |-> <<>>, errors |-> FALSE, silent |-> FALSE]

History(T) ==
    [w \in Conns |->
        LET L == conn[w]
            N == T.cn[w]
        IN IF N.pc \in {"idle", "closed", "hung"} THEN NoHist
           ELSE IF L.pc = "recv" /\ N.pc = "processing"
                THEN [hist[w] EXCEPT !.asked = Append(@, N.user_query)]
           ELSE IF N.pc \in {"parse_err", "exc_err", "agent_err"}
                THEN [hist[w] EXCEPT !.errors = TRUE]
           ELSE IF L.pc = "next" /\ N.pc = "recv"
                THEN [hist[w] EXCEPT !.silent = TRUE]
           ELSE hist[w]]

Commit(T) ==
    \E S \in {T} :
        /\ hist' = History(S)
        /\ active_connections' = S.ac
        /\ mcp_clients' = S.mc
        /\ agents' = S.ag
        /\ chat_histories' = S.ch
        /\ client' = S.ob
        /\ conn' = S.cn
        /\ shutdown' = S.sd
        /\ tool' = S.tl
        /\ status' = S.st
        /\ main' = S.mn

Init ==
    /\ active_connections = [c \in Clients |-> NoObj]
    /\ mcp_clients = [c \in Clients |-> NoObj]
    /\ agents = [c \in Clients |-> NoObj]
    /\ chat_histories = [c \in Clients |-> NoHistory]
    /\ client = [o \in Objs |-> FreshClient]
    /\ conn = [w \in Conns |-> IdleConn]
    /\ hist = [w \in Conns |-> NoHist]
    /\ shutdown = NoShutdown
    /\ tool = NoCall
    /\ status = NoStatus
    /\ main = NoMain

\* ------------------------------------------------- release (the finally)
\* websocket_endpoint has returned: its locals are gone.  What is kept is what was
\* observed of a failed session creation.
Closed(L) ==
    [IdleConn EXCEPT !.pc = "closed", !.cid = L.cid, !.failed = L.failed,
                     !.out = IF L.failed # NotFailed THEN L.out ELSE <<>>]

\* the pops of lines 560-566 without the one of line 566
FinallyPop_KeepsLog(S, w) ==
    LET c == S.cn[w].cid IN
    [S EXCEPT !.mc[c] = NoObj, !.ag[c] = NoObj, !.cn[w] = Closed(S.cn[w])]

\* lines 560-566: the three pops after the disconnect
FinallyPop(S, w) ==
    LET c == S.cn[w].cid IN
    [S EXCEPT !.mc[c] = NoObj, !.ag[c] = NoObj, !.ch[c] = NoHistory,
              !.cn[w] = Closed(S.cn[w])]

\* MCPClient.cleanup, lines 205-206
CleanupClear(S, o) ==
    [S EXCEPT !.ob[o].session = FALSE, !.ob[o].connected = FALSE]

\* MCPClient.cleanup up to its first await; pc "cu_done" when it awaits nothing
CleanupBegin(S, w, o, tag) ==
    LET S1 == [S EXCEPT !.cn[w].cl = o, !.cn[w].after = tag] IN
    IF S.ob[o].session_context THEN [S1 EXCEPT !.cn[w].pc = "cu_sess"]
    ELSE IF S.ob[o].streams_context THEN [S1 EXCEPT !.cn[w].pc = "cu_streams"]
    ELSE [CleanupClear(S1, o) EXCEPT !.cn[w].pc = "cu_done"]

\* lines 551-566 up to the first await
Finally(S, w) ==
    LET c == S.cn[w].cid
        S1 == [S EXCEPT !.ac[c] = NoObj]
    IN IF S1.mc[c] # NoObj
       THEN LET S2 == CleanupBegin(S1, w, S1.mc[c], "finally") IN
            IF S2.cn[w].pc = "cu_done" THEN FinallyPop(S2, w) ELSE S2
       ELSE FinallyPop(S1, w)

\* The registries that hold client identifier c
Registered(S, c) ==
    {r \in {"mcp_clients", "agents", "chat_histories"} :
        \/ r = "mcp_clients" /\ S.mc[c] # NoObj
        \/ r = "agents" /\ S.ag[c] # NoObj
        \/ r = "chat_histories" /\ S.ch[c].present}

\* lines 409-411 with the exception swallowed: the caller goes on to its loop
GetMcpClientRaise_Swallowed(S, w) ==
    [S EXCEPT !.cn[w].pc = "recv"]

\* get_mcp_client raises to websocket_endpoint (lines 409-411, or the KeyError of
\* line 413), which logs it (549-550) and enters the finally
GetMcpClientRaise(S, w) ==
    Finally([S EXCEPT !.cn[w].failed = Registered(S, S.cn[w].cid),
                      !.cn[w].cl = NoObj, !.cn[w].after = None], w)

\* line 413
GetMcpClientReturn(S, w) ==
    LET c == S.cn[w].cid IN
    IF S.mc[c] = NoObj THEN GetMcpClientRaise(S, w)
    ELSE [S EXCEPT !.cn[w].mcp_client = S.mc[c], !.cn[w].pc = "recv"]

\* lines 227-230 and 167-174: the check, the new MCPClient, the no-op cleanup of
\* a fresh client, the sse_client context, up to awaiting its __aenter__
GetMcpClient(S, w) ==
    LET c == S.cn[w].cid IN
    IF S.mc[c] = NoObj
    THEN [S EXCEPT !.ob[w] = [FreshClient EXCEPT !.streams_context = TRUE],
                   !.cn[w].pc = "sse_enter"]
    ELSE GetMcpClientReturn(S, w)

\* connect_to_sse_server's except clause, lines 191-193
ConnectFail(S, w) ==
    LET S1 == CleanupBegin(S, w, w, "connect") IN
    IF S1.cn[w].pc = "cu_done" THEN GetMcpClientRaise(S1, w) ELSE S1

\* What follows a finished cleanup: the re-raise of line 194 or the pops of 560-566
AfterCleanup(S, w) ==
    IF S.cn[w].after = "finally" THEN FinallyPop(S, w) ELSE GetMcpClientRaise(S, w)

\* ------------------------------------------------------ exception paths
\* an exception inside the per-message try (466), caught at line 540: the handler
\* then awaits the send of line 542
RaiseInner(S, w) ==
    [S EXCEPT !.cn[w].pc = "exc_err", !.cn[w].full_response = <<>>,
              !.cn[w].has_streamed_content = FALSE, !.cn[w].response = <<>>]

\* lines 521-524 with the error text added to the chunks already relayed
RaiseAgent_KeepsChunks(S, w) ==
    [S EXCEPT !.cn[w].full_response = @ \o AgentErrorText, !.cn[w].response = <<>>,
              !.cn[w].pc = "agent_err"]

\* an exception inside the agent try (489), caught at line 520: lines 521-524
RaiseAgent(S, w) ==
    [S EXCEPT !.cn[w].full_response = AgentErrorText, !.cn[w].response = <<>>,
              !.cn[w].pc = "agent_err"]

\* back to the receive of line 467; the locals of lines 485-486 and 493 are
\* assigned again before they are next read, and out starts again for the next
\* payload
Loop(S, w) ==
    [S EXCEPT !.cn[w].pc = "recv", !.cn[w].full_response = <<>>,
              !.cn[w].has_streamed_content = FALSE, !.cn[w].response = <<>>,
              !.cn[w].chunks = <<>>, !.cn[w].whole = FALSE,
              !.cn[w].payload = None, !.cn[w].user_query = <<>>,
              !.cn[w].out = <<>>]

\* lines 530-532 with insert(0, ...) for append(...)
AppendTurn_First(S, w) ==
    LET c == S.cn[w].cid
        text == S.cn[w].full_response
    IN IF text # <<>>
       THEN IF ~S.ch[c].present THEN RaiseInner(S, w)
            ELSE Loop([S EXCEPT !.ch[c].messages =
                                   <<Message("assistant", text)>> \o @], w)
       ELSE Loop(S, w)

\* lines 530-532
AppendTurn(S, w) ==
    LET c == S.cn[w].cid
        text == S.cn[w].full_response
    IN IF text # <<>>
       THEN IF ~S.ch[c].present THEN RaiseInner(S, w)
            ELSE Loop([S EXCEPT !.ch[c].messages =
                                   Append(@, Message("assistant", text))], w)
       ELSE Loop(S, w)

\* lines 504-518: what follows the end of the stream
StreamEnd(S, w) ==
    LET L == S.cn[w] IN
    IF ~L.has_streamed_content /\ L.full_response # <<>>
    THEN [S EXCEPT !.cn[w].pc = "full"]
    ELSE IF L.has_streamed_content THEN [S EXCEPT !.cn[w].pc = "end"]
    ELSE AppendTurn(S, w)

\* lines 494-498: one response of the stream
OnResponse(S, w, content) ==
    IF content # <<>>
    THEN [S EXCEPT !.cn[w].has_streamed_content = TRUE,
                   !.cn[w].full_response = @ \o content,
                   !.cn[w].response = content,
                   !.cn[w].pc = "partial"]
    ELSE S

\* lines 468-484 with the append of line 475 moved before the parse of line 468
OnText_RecordsFirst(S, w, p) ==
    LET c == S.cn[w].cid
        S1 == [S EXCEPT !.cn[w].received = @ + 1, !.cn[w].payload = p.kind,
                        !.cn[w].out = <<>>,
                        !.ch[c].messages = Append(@, Message("user", <<>>))]
    IN IF p.kind = "malformed" THEN [S1 EXCEPT !.cn[w].pc = "parse_err"]
       ELSE RaiseInner(S1, w)

\* lines 468-484 after receive_text returned payload p
OnText(S, w, p) ==
    LET c == S.cn[w].cid
        user_query == Strip(Content(p))
        S1 == [S EXCEPT !.cn[w].received = @ + 1, !.cn[w].payload = p.kind,
                        !.cn[w].out = <<>>]
        S2 == [S1 EXCEPT !.cn[w].user_query = user_query]
    IN IF p.kind = "malformed" THEN [S1 EXCEPT !.cn[w].pc = "parse_err"]
       ELSE IF p.kind = "nonobject" THEN RaiseInner(S1, w)
       ELSE IF user_query = <<>> THEN Loop(S1, w)
       ELSE IF ~S2.ch[c].present THEN RaiseInner(S2, w)
       ELSE [S2 EXCEPT !.ch[c].messages = Append(@, Message("user", user_query)),
                       !.cn[w].pc = "processing"]

\* the outbound message of each send_json site
Outbound(L) ==
    CASE L.pc = "welcome" -> Json("assistant", WelcomeText, "absent")
      [] L.pc = "processing" -> Json("system", ProcessingText, "absent")
      [] L.pc = "partial" -> Json("assistant", L.response, "true")
      [] L.pc = "full" -> Json("assistant", L.full_response, "false")
      [] L.pc = "end" -> Json("assistant", <<>>, "false")
      [] L.pc = "agent_err" -> Json("assistant", L.full_response, "false")
      [] L.pc = "parse_err" -> Json("system", InvalidFormatText, "absent")
      [] L.pc = "exc_err" -> Json("system", ErrorText, "absent")

\* websocket.send_json returned: the code up to the next await
SendOk(S, w) ==
    LET L == S.cn[w]
        c == L.cid
        S1 == [S EXCEPT !.cn[w].out = Append(@, Outbound(L))]
    IN CASE L.pc = "welcome" -> GetMcpClient(S1, w)
         [] L.pc = "processing" ->
              IF S1.ag[c] = NoObj THEN RaiseInner(S1, w)
              ELSE [S1 EXCEPT !.cn[w].pc = "arun"]
         [] L.pc = "partial" -> [S1 EXCEPT !.cn[w].pc = "next"]
         [] L.pc \in {"full", "end", "agent_err"} -> AppendTurn(S1, w)
         [] L.pc \in {"parse_err", "exc_err"} -> Loop(S1, w)

\* websocket.send_json raised (the browser is gone): the enclosing handler
SendRaise(S, w) ==
    LET L == S.cn[w] IN
    CASE L.pc \in {"partial", "full", "end"} -> RaiseAgent(S, w)
      [] L.pc \in {"processing", "agent_err"} -> RaiseInner(S, w)
      [] L.pc \in {"welcome", "parse_err", "exc_err"} -> Finally(S, w)

SendSites ==
    {"welcome", "processing", "partial", "full", "end", "agent_err", "parse_err",
     "exc_err"}

\* ---------------------------------------------------------------- actions
\* payloads received so far by the connections of W, all together
RECURSIVE Received(_)
Received(W) ==
    IF W = {} THEN 0
    ELSE LET w == CHOOSE x \in W : TRUE IN conn[w].received + Received(W \ {w})

\* lines 450-463 without the welcome send of 457-460
Connect_NoWelcome(w, c) ==
    /\ conn[w].pc = "idle"
    /\ shutdown.pc = "idle"
    /\ Commit(GetMcpClient([Cur EXCEPT !.ac[c] = w, !.cn[w].cid = c], w))

\* lines 450-453, up to awaiting the welcome send.  A server that is shutting
\* down accepts no websocket.
Connect(w, c) ==
    /\ conn[w].pc = "idle"
    /\ shutdown.pc = "idle"
    /\ Commit([Cur EXCEPT !.ac[c] = w, !.cn[w].cid = c, !.cn[w].pc = "welcome"])

\* the browser goes away
Disconnect(w) ==
    /\ conn[w].pc \notin {"idle", "closed"}
    /\ ~conn[w].gone
    /\ Commit([Cur EXCEPT !.cn[w].gone = TRUE])

\* lines 457-545 with a send that cannot proceed while an agent call is pending
SendJson_Blocked(w) ==
    /\ conn[w].pc \in SendSites
    /\ \A v \in Conns : conn[v].pc # "hung"
    /\ Commit(IF conn[w].gone THEN SendRaise(Cur, w) ELSE SendOk(Cur, w))

SendJson(w) ==
    /\ conn[w].pc \in SendSites
    /\ Commit(IF conn[w].gone THEN SendRaise(Cur, w) ELSE SendOk(Cur, w))

\* line 174
SseEnter(w, ok) ==
    /\ conn[w].pc = "sse_enter"
    /\ Commit(IF ok
              THEN [Cur EXCEPT !.ob[w].open = TRUE, !.ob[w].opens = @ + 1,
                               !.ob[w].session_context = TRUE,
                               !.cn[w].pc = "handshake"]
              ELSE ConnectFail(Cur, w))

\* lines 178-189 and 231-235: the three awaits on the new ClientSession (its
\* __aenter__, initialize, list_tools), which no other task can see yet, then
\* the registration, up to awaiting mcp_tools.initialize().  r names the await
\* that raises.
Handshakes == {"ok", "enter", "initialize", "list_tools"}

SessionHandshake(w, r) ==
    /\ conn[w].pc = "handshake"
    /\ Commit(CASE r = "ok" ->
                     [Cur EXCEPT !.ob[w].session = TRUE,
                                 !.ob[w].connected = TRUE,
                                 !.mc[conn[w].cid] = w,
                                 !.cn[w].pc = "tools_init"]
                [] r = "enter" -> ConnectFail(Cur, w)
                [] OTHER -> ConnectFail([Cur EXCEPT !.ob[w].session = TRUE], w))

\* lines 235-413 with the agent stored under every client identifier
ToolsInitialize_AgentForAll(w, ok) ==
    /\ conn[w].pc = "tools_init"
    /\ Commit(IF ok
              THEN GetMcpClientReturn(
                     [Cur EXCEPT !.ag = [d \in Clients |-> w],
                                 !.ch[conn[w].cid] = ChatHistory], w)
              ELSE GetMcpClientRaise(Cur, w))

\* lines 235-413: mcp_tools.initialize() and the Agent construction
ToolsInitialize(w, ok) ==
    /\ conn[w].pc = "tools_init"
    /\ Commit(IF ok
              THEN GetMcpClientReturn(
                     [Cur EXCEPT !.ag[conn[w].cid] = w,
                                 !.ch[conn[w].cid] = ChatHistory], w)
              ELSE GetMcpClientRaise(Cur, w))

\* line 200
CleanupSession(w, ok) ==
    /\ conn[w].pc = "cu_sess"
    /\ LET o == conn[w].cl
           S1 == [Cur EXCEPT !.ob[o].session_context = FALSE]
       IN Commit(IF ~ok THEN AfterCleanup(Cur, w)
                 ELSE IF S1.ob[o].streams_context
                      THEN [S1 EXCEPT !.cn[w].pc = "cu_streams"]
                      ELSE AfterCleanup(CleanupClear(S1, o), w))

\* line 203
CleanupStreams(w, ok) ==
    /\ conn[w].pc = "cu_streams"
    /\ LET o == conn[w].cl
           S1 == [Cur EXCEPT !.ob[o].exit_calls = @ + 1]
       IN Commit(IF ~ok THEN AfterCleanup(S1, w)
                 ELSE AfterCleanup(
                        CleanupClear([S1 EXCEPT !.ob[o].open = FALSE,
                                                !.ob[o].streams_context = FALSE],
                                     o), w))

\* line 467 returns payload p
ReceiveText(w, p) ==
    /\ conn[w].pc = "recv"
    /\ ~conn[w].gone
    /\ Commit(OnText(Cur, w, p))

Receive(w, p) ==
    /\ Received(Conns) < MaxMsgs
    /\ ReceiveText(w, p)

\* line 467 raises WebSocketDisconnect, which line 540 catches
ReceiveDisconnect(w) ==
    /\ conn[w].pc = "recv"
    /\ conn[w].gone
    /\ Commit(RaiseInner(Cur, w))

\* line 490
AgentRun(w) ==
    /\ conn[w].pc = "arun"
    /\ Commit([Cur EXCEPT !.cn[w].pc = "next"])

\* line 493 yields a response
AgentYield(w, content, whole) ==
    /\ conn[w].pc = "next"
    /\ ~conn[w].whole
    /\ whole => conn[w].chunks = <<>>
    /\ content # <<>> =>
          /\ Len(conn[w].chunks) < MaxChunks
          /\ content = <<Texts(Len(conn[w].chunks) + 1)>>
    /\ LET S1 == IF content = <<>> THEN Cur
                 ELSE IF whole THEN [Cur EXCEPT !.cn[w].whole = TRUE]
                 ELSE [Cur EXCEPT !.cn[w].chunks = Append(@, content)]
       IN Commit(OnResponse(S1, w, content))

\* line 493: the stream ends
AgentEnd(w) ==
    /\ conn[w].pc = "next"
    /\ Commit(StreamEnd(Cur, w))

\* lines 490, 493: the agent raises
AgentRaise(w) ==
    /\ conn[w].pc \in {"arun", "next"}
    /\ Commit(RaiseAgent(Cur, w))

\* lines 490, 493: the agent never answers
AgentHang(w) ==
    /\ conn[w].pc \in {"arun", "next"}
    /\ Commit([Loop(Cur, w) EXCEPT !.cn[w].pc = "hung"])

Next ==
    \/ \E w \in Conns : \E c \in ClientsOf(w) : Connect(w, c)
    \/ \E w \in Conns : Disconnect(w)
    \/ \E w \in Conns : SendJson(w)
    \/ \E w \in Conns, ok \in BOOLEAN : SseEnter(w, ok)
    \/ \E w \in Conns, r \in Handshakes : SessionHandshake(w, r)
    \/ \E w \in Conns, ok \in BOOLEAN : ToolsInitialize(w, ok)
    \/ \E w \in Conns, ok \in BOOLEAN : CleanupSession(w, ok)
    \/ \E w \in Conns, ok \in BOOLEAN : CleanupStreams(w, ok)
    \/ \E w \in Conns, p \in Payloads(Received(Conns) + 1) : Receive(w, p)
    \/ \E w \in Conns : ReceiveDisconnect(w)
    \/ \E w \in Conns : AgentRun(w)
    \/ \E w \in Conns, t \in {<<>>} \cup {<<Texts(i)>> : i \in 1..MaxChunks},
          whole \in BOOLEAN : AgentYield(w, t, whole)
    \/ \E w \in Conns : AgentEnd(w)
    \/ \E w \in Conns : AgentRaise(w)
    \/ \E w \in Conns : AgentHang(w)

Spec == Init /\ [][Next]_vars

\* The steps of connection w's task.  The event loop runs every task that can
\* run; what the browser sends, and whether the agent ever answers, is not up to
\* the program.
Handler(w) ==
    \/ SendJson(w)
    \/ \E ok \in BOOLEAN : SseEnter(w, ok)
    \/ \E r \in Handshakes : SessionHandshake(w, r)
    \/ \E ok \in BOOLEAN : ToolsInitialize(w, ok)
    \/ \E ok \in BOOLEAN : CleanupSession(w, ok)
    \/ \E ok \in BOOLEAN : CleanupStreams(w, ok)
    \/ ReceiveDisconnect(w)
    \/ AgentRun(w)
    \/ \E i \in 1..MaxChunks : AgentYield(w, <<Texts(i)>>, FALSE)
    \/ AgentEnd(w)

FairSpec == Spec /\ \A w \in Conns : WF_vars(Handler(w))

\* ------------------------------------------------------ shutdown_event
\* line 572: the snapshot list(mcp_clients.items())
ShutdownEvent ==
    /\ shutdown.pc = "idle"
    /\ LET items == {<<c, mcp_clients[c]>> :
                        c \in {d \in Clients : mcp_clients[d] # NoObj}}
       IN Commit([Cur EXCEPT !.sd = [NoShutdown EXCEPT
                                        !.pc = "loop", !.todo = items,
                                        !.listed = items]])

\* the end of one iteration of the loop of line 572
ShutdownLoop(S) ==
    [S EXCEPT !.sd.pc = "loop", !.sd.item = <<>>]

\* lines 572-574: the next item and MCPClient.cleanup up to its first await
ShutdownDisconnect(it) ==
    /\ shutdown.pc = "loop"
    /\ it \in shutdown.todo
    /\ LET o == it[2]
           S1 == [Cur EXCEPT !.sd.todo = @ \ {it}, !.sd.item = it]
       IN Commit(IF client[o].session_context
                 THEN [S1 EXCEPT !.sd.pc = "cu_sess"]
                 ELSE IF client[o].streams_context
                      THEN [S1 EXCEPT !.sd.pc = "cu_streams"]
                      ELSE ShutdownLoop(CleanupClear(S1, o)))

\* cleanup's except clause (207-208) inside shutdown_event
ShutdownCleanupRaised(S) ==
    ShutdownLoop([S EXCEPT !.sd.raised = @ \cup {S.sd.item[1]}])

\* line 200 inside shutdown_event
ShutdownCleanupSession(ok) ==
    /\ shutdown.pc = "cu_sess"
    /\ LET o == shutdown.item[2]
           S1 == [Cur EXCEPT !.ob[o].session_context = FALSE]
       IN Commit(IF ~ok THEN ShutdownCleanupRaised(Cur)
                 ELSE IF S1.ob[o].streams_context
                      THEN [S1 EXCEPT !.sd.pc = "cu_streams"]
                      ELSE ShutdownLoop(CleanupClear(S1, o)))

\* line 203 inside shutdown_event
ShutdownCleanupStreams(ok) ==
    /\ shutdown.pc = "cu_streams"
    /\ LET o == shutdown.item[2]
           S1 == [Cur EXCEPT !.ob[o].exit_calls = @ + 1]
       IN Commit(IF ~ok THEN ShutdownCleanupRaised(S1)
                 ELSE ShutdownLoop(
                        CleanupClear([S1 EXCEPT !.ob[o].open = FALSE,
                                                !.ob[o].streams_context = FALSE],
                                     o)))

\* the loop of line 572 is over: shutdown_event returns
ShutdownEnd ==
    /\ shutdown.pc = "loop"
    /\ shutdown.todo = {}
    /\ Commit([Cur EXCEPT !.sd.pc = "done"])

\* The program that is shut down while websockets are being opened and closed
\* (no payload is sent).
ShutdownNext ==
    \/ \E w \in Conns : \E c \in ClientsOf(w) : Connect(w, c)
    \/ \E w \in Conns : Disconnect(w)
    \/ \E w \in Conns : SendJson(w)
    \/ \E w \in Conns, ok \in BOOLEAN : SseEnter(w, ok)
    \/ \E w \in Conns, r \in Handshakes : SessionHandshake(w, r)
    \/ \E w \in Conns, ok \in BOOLEAN : ToolsInitialize(w, ok)
    \/ \E w \in Conns, ok \in BOOLEAN : CleanupSession(w, ok)
    \/ \E w \in Conns, ok \in BOOLEAN : CleanupStreams(w, ok)
    \/ \E w \in Conns : ReceiveDisconnect(w)
    \/ ShutdownEvent
    \/ \E it \in shutdown.todo : ShutdownDisconnect(it)
    \/ \E ok \in BOOLEAN : ShutdownCleanupSession(ok)
    \/ \E ok \in BOOLEAN : ShutdownCleanupStreams(ok)
    \/ ShutdownEnd

SpecShutdown == Init /\ [][ShutdownNext]_vars

\* ------------------------------------------------- get_status (/api/status)
\* temp_client.cleanup() has run to its end: lines 205-206
StatusClear(R) ==
    [R EXCEPT !.temp_client.session = FALSE, !.temp_client.connected = FALSE]

\* lines 437-447: the return value of get_status
StatusReturn(R) ==
    [R EXCEPT !.pc = "returned",
              !.ret = IF R.after = "raised" THEN "error"
                      ELSE IF R.connected THEN "connected" ELSE "disconnected"]

\* lines 434-435: the finally of get_status, temp_client.cleanup() up to its
\* first await; tag tells whether connect_to_sse_server raised
StatusDisconnect(R, tag) ==
    LET R1 == [R EXCEPT !.after = tag] IN
    IF R.temp_client.session_context THEN [R1 EXCEPT !.pc = "cu_sess"]
    ELSE IF R.temp_client.streams_context THEN [R1 EXCEPT !.pc = "cu_streams"]
    ELSE StatusReturn(StatusClear(R1))

\* connect_to_sse_server's except clause (191-193) on the temporary client
StatusConnectFail(R) ==
    LET R1 == [R EXCEPT !.after = "connect", !.probe = "raised"] IN
    IF R.temp_client.session_context THEN [R1 EXCEPT !.pc = "cu_sess"]
    ELSE IF R.temp_client.streams_context THEN [R1 EXCEPT !.pc = "cu_streams"]
    ELSE StatusDisconnect(StatusClear(R1), "raised")

\* What follows a finished cleanup of the temporary client: the re-raise of
\* line 194 into the finally of 434, or the return
StatusAfterCleanup(R) ==
    IF R.after = "connect" THEN StatusDisconnect(R, "raised") ELSE StatusReturn(R)

\* lines 425-433 and 167-174: a request for /api/status, up to awaiting the
\* __aenter__ of the sse_client context
GetStatus ==
    /\ status.pc \in {"idle", "returned"}
    /\ status.calls < MaxStatus
    /\ Commit([Cur EXCEPT !.st = [NoStatus EXCEPT
                  !.pc = "sse_enter", !.calls = status.calls + 1,
                  !.temp_client.streams_context = TRUE]])

\* line 174 on the temporary client
StatusSseEnter(ok) ==
    /\ status.pc = "sse_enter"
    /\ Commit([Cur EXCEPT !.st =
                  IF ok
                  THEN [status EXCEPT !.temp_client.open = TRUE,
                                      !.temp_client.opens = @ + 1,
                                      !.temp_client.session_context = TRUE,
                                      !.pc = "handshake"]
                  ELSE StatusConnectFail(status)])

\* lines 178-189 on the temporary client, then line 433's assignment and the
\* finally; r names the await that raises
StatusHandshake(r) ==
    /\ status.pc = "handshake"
    /\ Commit([Cur EXCEPT !.st =
                  CASE r = "ok" ->
                         StatusDisconnect(
                           [status EXCEPT !.temp_client.session = TRUE,
                                          !.temp_client.connected = TRUE,
                                          !.connected = TRUE,
                                          !.probe = "ok"], "finally")
                    [] r = "enter" -> StatusConnectFail(status)
                    [] OTHER ->
                         StatusConnectFail(
                           [status EXCEPT !.temp_client.session = TRUE])])

\* line 200 on the temporary client
StatusCleanupSession(ok) ==
    /\ status.pc = "cu_sess"
    /\ LET R1 == [status EXCEPT !.temp_client.session_context = FALSE]
       IN Commit([Cur EXCEPT !.st =
                     IF ~ok
                     THEN StatusAfterCleanup([status EXCEPT !.exit_raised = TRUE])
                     ELSE IF R1.temp_client.streams_context
                          THEN [R1 EXCEPT !.pc = "cu_streams"]
                          ELSE StatusAfterCleanup(StatusClear(R1))])

\* line 203 on the temporary client
StatusCleanupStreams(ok) ==
    /\ status.pc = "cu_streams"
    /\ LET R1 == [status EXCEPT !.temp_client.exit_calls = @ + 1]
       IN Commit([Cur EXCEPT !.st =
                     IF ~ok
                     THEN StatusAfterCleanup([R1 EXCEPT !.exit_raised = TRUE])
                     ELSE StatusAfterCleanup(
                            StatusClear([R1 EXCEPT
                                           !.temp_client.open = FALSE,
                                           !.temp_client.streams_context = FALSE]))])

\* The program that answers /api/status while websockets are being opened and
\* closed (no payload is sent).
StatusNext ==
    \/ \E w \in Conns : \E c \in ClientsOf(w) : Connect(w, c)
    \/ \E w \in Conns : Disconnect(w)
    \/ \E w \in Conns : SendJson(w)
    \/ \E w \in Conns, ok \in BOOLEAN : SseEnter(w, ok)
    \/ \E w \in Conns, r \in Handshakes : SessionHandshake(w, r)
    \/ \E w \in Conns, ok \in BOOLEAN : ToolsInitialize(w, ok)
    \/ \E w \in Conns, ok \in BOOLEAN : CleanupSession(w, ok)
    \/ \E w \in Conns, ok \in BOOLEAN : CleanupStreams(w, ok)
    \/ \E w \in Conns : ReceiveDisconnect(w)
    \/ GetStatus
    \/ \E ok \in BOOLEAN : StatusSseEnter(ok)
    \/ \E r \in Handshakes : StatusHandshake(r)
    \/ \E ok \in BOOLEAN : StatusCleanupSession(ok)
    \/ \E ok \in BOOLEAN : StatusCleanupStreams(ok)

SpecStatus == Init /\ [][StatusNext]_vars

\* ------------------------------- the terminal client (trading_agent.py)
\* user_query.lower() == 'quit' (line 378), on the inputs Prompt.ask returns here
Inputs(n) == {"quit", "QUIT", UserTexts(n)}
IsQuit(q) == q \in {"quit", "Quit", "QUIT"}

\* main returns (lines 234, 244, 252, or its end); exit names the path
MainReturn(R, exit) ==
    [R EXCEPT !.pc = "returned", !.exit = exit]

\* lines 400-402: the finally of main calls mcp_client.disconnect(), which is
\* cleanup() (114-119), up to its first await
MainFinally(R, exit) ==
    LET R1 == [R EXCEPT !.disconnects = @ + 1, !.exit = exit] IN
    IF R.mcp_client.session_context THEN [R1 EXCEPT !.pc = "cu_sess"]
    ELSE IF R.mcp_client.streams_context THEN [R1 EXCEPT !.pc = "cu_streams"]
    ELSE MainReturn(R1, exit)

\* lines 207-229 and 75-81: main up to awaiting the __aenter__ of the sse_client
MainStart ==
    /\ main.pc = "start"
    /\ Commit([Cur EXCEPT !.mn.pc = "sse_enter",
                          !.mn.mcp_client.streams_context = TRUE])

\* line 81; a failure is re-raised (112) and caught by main (231-234)
MainSseEnter(ok) ==
    /\ main.pc = "sse_enter"
    /\ Commit([Cur EXCEPT !.mn =
                  IF ok
                  THEN [main EXCEPT !.mcp_client.open = TRUE,
                                    !.mcp_client.session_context = TRUE,
                                    !.pc = "session_enter"]
                  ELSE MainReturn(main, "connect")])

\* line 85
MainSessionEnter(ok) ==
    /\ main.pc = "session_enter"
    /\ Commit([Cur EXCEPT !.mn =
                  IF ok
                  THEN [main EXCEPT !.mcp_client.session = TRUE,
                                    !.pc = "initialize"]
                  ELSE MainReturn(main, "connect")])

\* lines 89-96
MainInitialize(ok) ==
    /\ main.pc = "initialize"
    /\ Commit([Cur EXCEPT !.mn =
                  IF ok THEN [main EXCEPT !.pc = "verify"]
                  ELSE MainReturn(main, "connect")])

\* lines 99-106; when it returns so does connect_to_sse_server, and main goes
\* on to line 239
MainVerify(ok) ==
    /\ main.pc = "verify"
    /\ Commit([Cur EXCEPT !.mn =
                  IF ok THEN [main EXCEPT !.connected = TRUE, !.pc = "list_tools"]
                  ELSE MainReturn(main, "connect")])

\* lines 237-244
MainListTools(ok) ==
    /\ main.pc = "list_tools"
    /\ Commit([Cur EXCEPT !.mn =
                  IF ok THEN [main EXCEPT !.pc = "tools_init"]
                  ELSE MainReturn(main, "list_tools")])

\* lines 246-368: mcp_tools.initialize(), the Agent, the welcome message
MainToolsInitialize(ok) ==
    /\ main.pc = "tools_init"
    /\ Commit([Cur EXCEPT !.mn =
                  IF ok THEN [main EXCEPT !.pc = "prompt"]
                  ELSE MainReturn(main, "tools_init")])

\* lines 371-390: the prompt returns q; quit leaves the loop for the finally
MainPrompt(q) ==
    /\ main.pc = "prompt"
    /\ IsQuit(q) \/ main.asked < MaxQueries
    /\ Commit([Cur EXCEPT !.mn =
                  IF IsQuit(q) THEN MainFinally(main, "quit")
                  ELSE [main EXCEPT !.user_query = q, !.asked = @ + 1,
                                    !.printed = 0,
                                    !.console = Append(@, <<"You", q>>),
                                    !.pc = "arun"]])

\* line 390; an exception is caught at 398 and the finally runs
MainAgentRun(ok) ==
    /\ main.pc = "arun"
    /\ Commit([Cur EXCEPT !.mn =
                  IF ok THEN [main EXCEPT !.pc = "next"]
                  ELSE MainFinally(main, "error")])

\* lines 391-393: one response of the stream
MainAgentYield(content) ==
    /\ main.pc = "next"
    /\ main.printed < MaxChunks
    /\ Commit([Cur EXCEPT !.mn.printed = @ + 1,
                          !.mn.console =
                              IF content # ""
                              THEN Append(@, <<"Assistant", content>>) ELSE @])

\* the stream ends (395-396): back to the prompt
MainAgentEnd ==
    /\ main.pc = "next"
    /\ Commit([Cur EXCEPT !.mn.pc = "prompt"])

\* the stream raises: caught at 398, then the finally
MainAgentRaise ==
    /\ main.pc = "next"
    /\ Commit([Cur EXCEPT !.mn = MainFinally(main, "error")])

\* line 117; an exception leaves cleanup, disconnect and main
MainCleanupSession(ok) ==
    /\ main.pc = "cu_sess"
    /\ Commit([Cur EXCEPT !.mn =
                  IF ~ok THEN MainReturn(main, main.exit)
                  ELSE IF main.mcp_client.streams_context
                       THEN [main EXCEPT !.pc = "cu_streams"]
                       ELSE MainReturn(main, main.exit)])

\* line 119
MainCleanupStreams(ok) ==
    /\ main.pc = "cu_streams"
    /\ Commit([Cur EXCEPT !.mn =
                  MainReturn(IF ok THEN [main EXCEPT !.mcp_client.open = FALSE]
                             ELSE main, main.exit)])

MainNext ==
    \/ MainStart
    \/ \E ok \in BOOLEAN : MainSseEnter(ok)
    \/ \E ok \in BOOLEAN : MainSessionEnter(ok)
    \/ \E ok \in BOOLEAN : MainInitialize(ok)
    \/ \E ok \in BOOLEAN : MainVerify(ok)
    \/ \E ok \in BOOLEAN : MainListTools(ok)
    \/ \E ok \in BOOLEAN : MainToolsInitialize(ok)
    \/ \E q \in Inputs(main.asked + 1) : MainPrompt(q)
    \/ \E ok \in BOOLEAN : MainAgentRun(ok)
    \/ \E content \in {"", Texts(main.printed + 1)} : MainAgentYield(content)
    \/ MainAgentEnd
    \/ MainAgentRaise
    \/ \E ok \in BOOLEAN : MainCleanupSession(ok)
    \/ \E ok \in BOOLEAN : MainCleanupStreams(ok)

SpecTerminal == Init /\ [][MainNext]_vars

\* The program with one websocket connection in its whole life, which may send
\* MaxSoloMsgs payloads.
Solo == CHOOSE w \in Conns : \A v \in Conns : w <= v

SoloReceive(p) ==
    /\ conn[Solo].received < MaxSoloMsgs
    /\ ReceiveText(Solo, p)

SoloNext ==
    \/ \E c \in ClientsOf(Solo) : Connect(Solo, c)
    \/ Disconnect(Solo)
    \/ SendJson(Solo)
    \/ \E ok \in BOOLEAN : SseEnter(Solo, ok)
    \/ \E r \in Handshakes : SessionHandshake(Solo, r)
    \/ \E ok \in BOOLEAN : ToolsInitialize(Solo, ok)
    \/ \E ok \in BOOLEAN : CleanupSession(Solo, ok)
    \/ \E ok \in BOOLEAN : CleanupStreams(Solo, ok)
    \/ \E p \in Payloads(conn[Solo].received + 1) : SoloReceive(p)
    \/ ReceiveDisconnect(Solo)
    \/ AgentRun(Solo)
    \/ \E t \in {<<>>} \cup {<<Texts(i)>> : i \in 1..MaxChunks},
          whole \in BOOLEAN : AgentYield(Solo, t, whole)
    \/ AgentEnd(Solo)
    \/ AgentRaise(Solo)
    \/ AgentHang(Solo)

SpecSolo == Init /\ [][SoloNext]_vars

\* The program with two websockets of different client identifiers, where the
\* agent call of the first (Solo) never returns
Other == CHOOSE w \in Conns : w # Solo

HungReceive(w, p) ==
    /\ conn[w].received < MaxMsgs
    /\ ReceiveText(w, p)

HungNext ==
    \/ \E c \in ClientsOf(Solo) : Connect(Solo, c)
    \/ \E c \in Clients \ ClientsOf(Solo) : Connect(Other, c)
    \/ Disconnect(Other)
    \/ \E w \in Conns : SendJson(w)
    \/ SseEnter(Solo, TRUE)
    \/ SessionHandshake(Solo, "ok")
    \/ ToolsInitialize(Solo, TRUE)
    \/ HungReceive(Solo, [kind |-> "object", content |-> <<UserTexts(1)>>])
    \/ \E w \in Conns : AgentRun(w)
    \/ AgentHang(Solo)
    \/ \E ok \in BOOLEAN : SseEnter(Other, ok)
    \/ \E r \in Handshakes : SessionHandshake(Other, r)
    \/ \E ok \in BOOLEAN : ToolsInitialize(Other, ok)
    \/ \E ok \in BOOLEAN : CleanupSession(Other, ok)
    \/ \E ok \in BOOLEAN : CleanupStreams(Other, ok)
    \/ \E p \in Payloads(conn[Other].received + 1) : HungReceive(Other, p)
    \/ ReceiveDisconnect(Other)
    \/ \E t \in {<<>>} \cup {<<Texts(i)>> : i \in 1..MaxChunks},
          whole \in BOOLEAN : AgentYield(Other, t, whole)
    \/ AgentEnd(Other)
    \/ AgentRaise(Other)
    \/ AgentHang(Other)

SpecHung == Init /\ [][HungNext]_vars

FairSpecHung == SpecHung /\ WF_vars(Handler(Other))

\* ------------------------------------------- the tools of src/server/server.py
\* Strings are sequences of characters.  Sample(i) is the i-th string over the
\* characters "N", "n", "s": the empty string, "n", "s", "Nn", ...
Chars == <<"N", "n", "s">>

RECURSIVE Sample(_)
Sample(i) ==
    IF i = 0 THEN <<>> ELSE <<Chars[(i % 3) + 1]>> \o Sample(i \div 3)

Strings == {Sample(i) : i \in 0..(MaxStrings - 1)}

\* str.upper and str.lower on the characters above
upper(s) ==
    [k \in 1..Len(s) |-> CASE s[k] = "n" -> "N" [] s[k] = "s" -> "S"
                           [] OTHER -> s[k]]

lower(s) ==
    [k \in 1..Len(s) |-> CASE s[k] = "N" -> "n" [] s[k] = "S" -> "s"
                           [] OTHER -> s[k]]

\* One tool: the method of the broker client it calls; the string arguments it
\* forwards upper-cased, unchanged and lower-cased; those it forwards only when
\* they are not empty (if x:); and what it does with its list argument.
\* Arguments that are forwarded unchanged and are no symbol, exchange, action,
\* type or product (quantities, prices, identifiers, dates, strategy) are left
\* out.
Tool(method, up, asis, low, ifset, list) ==
    [method |-> method, upper |-> up, asis |-> asis, lower |-> low,
     ifset |-> ifset, list |-> list]

Order == {"symbol", "action", "exchange", "price_type", "product"}

tools ==
    [place_order |-> Tool("placeorder", Order, {}, {}, {}, "none"),
     get_quote |-> Tool("quotes", {"symbol", "exchange"}, {}, {}, {}, "none"),
     get_depth |-> Tool("depth", {"symbol", "exchange"}, {}, {}, {}, "none"),
     get_history |-> Tool("history", {"symbol", "exchange"}, {}, {}, {}, "none"),
     get_intervals |-> Tool("intervals", {}, {}, {}, {}, "none"),
     get_symbol_metadata |->
         Tool("symbol", {"symbol", "exchange"}, {}, {}, {}, "none"),
     get_all_tickers |-> Tool("ticker", {"exchange"}, {}, {}, {"exchange"}, "none"),
     get_funds |-> Tool("funds", {}, {}, {}, {}, "none"),
     get_orders |-> Tool("orderbook", {}, {}, {}, {}, "none"),
     modify_order |-> Tool("modifyorder", Order, {}, {}, {}, "none"),
     cancel_order |-> Tool("cancelorder", {}, {}, {}, {}, "none"),
     cancel_all_orders |-> Tool("cancelallorder", {}, {}, {}, {}, "none"),
     get_order_status |-> Tool("orderstatus", {}, {}, {}, {}, "none"),
     get_open_position |->
         Tool("openposition", {}, {"symbol", "exchange", "product"}, {}, {},
              "none"),
     close_all_positions |-> Tool("closeposition", {}, {}, {}, {}, "none"),
     get_position_book |-> Tool("positionbook", {}, {}, {}, {}, "none"),
     get_order_book |-> Tool("orderbook", {}, {}, {}, {}, "none"),
     get_trade_book |-> Tool("tradebook", {}, {}, {}, {}, "none"),
     get_holdings |-> Tool("holdings", {}, {}, {}, {}, "none"),
     place_basket_order |-> Tool("basketorder", {}, {}, {}, {}, "asis"),
     place_split_order |-> Tool("splitorder", Order, {}, {}, {}, "none"),
     place_smart_order |-> Tool("placesmartorder", Order, {}, {}, {}, "none"),
     place_options_order |->
         Tool("optionsorder",
              {"underlying", "exchange", "offset", "option_type", "action",
               "price_type", "product"}, {}, {}, {}, "none"),
     place_options_multi_order |->
         Tool("optionsmultiorder", {"underlying", "exchange"}, {}, {}, {}, "asis"),
     get_option_symbol |->
         Tool("optionsymbol",
              {"underlying", "exchange", "offset", "option_type"}, {}, {}, {},
              "none"),
     get_option_chain |->
         Tool("optionchain", {"underlying", "exchange"}, {}, {}, {}, "none"),
     get_option_greeks |->
         Tool("optiongreeks",
              {"symbol", "exchange", "underlying_symbol", "underlying_exchange"},
              {}, {}, {"underlying_symbol", "underlying_exchange"}, "none"),
     get_synthetic_future |->
         Tool("syntheticfuture", {"underlying", "exchange"}, {}, {}, {}, "none"),
     get_multi_quotes |-> Tool("multiquotes", {}, {}, {}, {}, "normalized"),
     search_instruments |-> Tool("search", {"exchange"}, {}, {}, {}, "none"),
     get_expiry_dates |->
         Tool("expiry", {"symbol", "exchange"}, {}, {"instrument_type"}, {},
              "none"),
     get_instruments |-> Tool("instruments", {"exchange"}, {}, {}, {}, "none"),
     get_holidays |-> Tool("holidays", {}, {}, {}, {}, "none"),
     get_timings |-> Tool("timings", {}, {}, {}, {}, "none"),
     send_telegram_alert |-> Tool("telegram", {}, {}, {}, {}, "none"),
     calculate_margin |-> Tool("margin", {}, {}, {}, {}, "asis"),
     analyzer_status |-> Tool("analyzerstatus", {}, {}, {}, {}, "none"),
     analyzer_toggle |-> Tool("analyzertoggle", {}, {}, {}, {}, "none")]

ToolNames == DOMAIN tools

\* the string arguments of tool t that the model follows
ArgsOf(t) == tools[t].upper \cup tools[t].asis \cup tools[t].lower

\* the entries of a list argument: dictionaries with a symbol and an exchange,
\* or with one of the two missing
Entries ==
    {[symbol |-> Sample(1), exchange |-> x] : x \in Strings}
    \cup {[symbol |-> Sample(1)], [exchange |-> Sample(1)]}

RECURSIVE Lists(_)
Lists(n) ==
    IF n = 0 THEN {<<>>}
    ELSE LET shorter == Lists(n - 1)
         IN shorter \cup {Append(l, e) : l \in shorter, e \in Entries}

ListsOf(t) == IF tools[t].list = "none" THEN {<<>>} ELSE Lists(MaxEntries)

\* the keyword under which expiry() gets instrument_type (line 759)
Keyword(p) == IF p = "instrument_type" THEN "instrumenttype" ELSE p

\* the keyword arguments of the broker call of tool t
Params(t, a) ==
    LET T == tools[t]
        sent == {p \in ArgsOf(t) : p \in T.ifset => a[p] # <<>>}
    IN [k \in {Keyword(p) : p \in sent} |->
           LET p == CHOOSE q \in sent : Keyword(q) = k
           IN IF p \in T.upper THEN upper(a[p])
              ELSE IF p \in T.lower THEN lower(a[p])
              ELSE a[p]]

\* line 722: s["symbol"] or s["exchange"] raises KeyError
Malformed(items) ==
    \E i \in 1..Len(items) : DOMAIN items[i] # {"symbol", "exchange"}

\* line 722
normalized(items) ==
    [i \in 1..Len(items) |->
        [symbol |-> upper(items[i].symbol), exchange |-> upper(items[i].exchange)]]

\* the one call of the broker client in the body of tool t
BrokerCall(t, a, items) ==
    [method |-> tools[t].method, params |-> Params(t, a),
     list |-> IF tools[t].list = "normalized" THEN normalized(items) ELSE items]

\* the try block with the broker call made again when it has raised
ToolBody_Retry(t, a, items, ok) ==
    IF tools[t].list = "normalized" /\ Malformed(items)
    THEN [calls |-> <<>>, broker |-> None, exc |-> TRUE]
    ELSE [calls |-> IF ok THEN <<BrokerCall(t, a, items)>>
                    ELSE <<BrokerCall(t, a, items), BrokerCall(t, a, items)>>,
          broker |-> IF ok THEN "returned" ELSE "raised", exc |-> ~ok]

\* the try block of tool t: the arguments are normalised into the parameters
\* of the broker call, which returns (ok) or raises
ToolBody(t, a, items, ok) ==
    IF tools[t].list = "normalized" /\ Malformed(items)
    THEN [calls |-> <<>>, broker |-> None, exc |-> TRUE]
    ELSE [calls |-> <<BrokerCall(t, a, items)>>,
          broker |-> IF ok THEN "returned" ELSE "raised", exc |-> ~ok]

\* tool t without its except clause
RunTool_NoExcept(t, a, items, ok) ==
    LET b == ToolBody(t, a, items, ok)
    IN [pc |-> "returned", name |-> t, args |-> a, items |-> items,
        calls |-> b.calls, broker |-> b.broker,
        ret |-> IF b.exc THEN None ELSE "text", raised |-> b.exc]

\* tool t: try: ... return str(response); except Exception as e: return
\* f"Error ...: {str(e)}"
RunTool(t, a, items, ok) ==
    LET b == ToolBody(t, a, items, ok)
    IN [pc |-> "returned", name |-> t, args |-> a, items |-> items,
        calls |-> b.calls, broker |-> b.broker,
        ret |-> IF b.exc THEN "error" ELSE "text", raised |-> FALSE]

\* one invocation of a tool by the MCP server
ToolCall(t, a, items, ok) ==
    /\ tool.pc = "idle"
    /\ Commit([Cur EXCEPT !.tl = RunTool(t, a, items, ok)])

\* the MCP server runs one invocation; its arguments are drawn only then
ToolsNext ==
    /\ tool.pc = "idle"
    /\ \E t \in ToolNames : \E a \in [ArgsOf(t) -> Strings],
          items \in ListsOf(t), ok \in BOOLEAN : ToolCall(t, a, items, ok)

SpecTools == Init /\ [][ToolsNext]_vars

\* ------------------------------------------------------------- claims
Alive(w) == conn[w].pc \notin {"idle", "closed"}

\* C1: two live connections with the same client identifier never hold two open
\* transport connections, and the clients get_mcp_client returned to them are
\* the same one.
C1_OneSessionPerClient ==
    \A w1, w2 \in Conns :
        (w1 # w2 /\ Alive(w1) /\ Alive(w2) /\ conn[w1].cid = conn[w2].cid) =>
            /\ ~(client[w1].open /\ client[w2].open)
            /\ (conn[w1].mcp_client # NoObj /\ conn[w2].mcp_client # NoObj) =>
                   conn[w1].mcp_client = conn[w2].mcp_client

\* C2: once the browser of a connection is gone, the handler eventually reaches
\* the end of its finally block.
C2_DisconnectReleases ==
    \A w \in Conns : conn[w].gone ~> (conn[w].pc = "closed")

\* C3: when get_mcp_client raises, the client identifier is in none of the three
\* registries.
C3_NoPartialSession ==
    \A w \in Conns : conn[w].failed # NotFailed => conn[w].failed = {}

SystemNotices(out) ==
    {i \in 1..Len(out) : out[i].role = "system"}

\* no other connection has used the client identifier of connection w
SoleUse(w) ==
    \A v \in Conns \ {w} : conn[v].pc = "idle" \/ conn[v].cid # conn[w].cid

\* C4: a connection whose session creation failed has sent exactly one
\* system-role notice by the time it is closed, made one connection attempt at
\* most, and, being the only one of its client identifier, leaves that
\* identifier in no registry.
C4_OneTerminalNotice ==
    \A w \in Conns :
        (conn[w].pc = "closed" /\ conn[w].failed # NotFailed) =>
            /\ Cardinality(SystemNotices(conn[w].out)) = 1
            /\ client[w].opens <= 1
            /\ SoleUse(w) => Registered(Cur, conn[w].cid) = {}

RECURSIVE Concat(_)
Concat(ss) == IF ss = <<>> THEN <<>> ELSE Head(ss) \o Concat(Tail(ss))

Partials(chunks) ==
    [i \in 1..Len(chunks) |-> Json("assistant", chunks[i], "true")]

Processing == Json("system", ProcessingText, "absent")
EndOfStream == Json("assistant", <<>>, "false")

\* connection w's task takes the step that ends the send it awaits at pc p
Sends(w, p) == conn[w].pc = p /\ ~conn[w].gone /\ conn'[w].pc # p

\* the messages sent for the current payload, the one being sent included
Sent(w) == Append(conn[w].out, Outbound(conn[w]))

TurnAppended(c, turn) ==
    /\ chat_histories[c].present
    /\ chat_histories'[c] =
          [chat_histories[c] EXCEPT !.messages = Append(@, turn)]

\* C5: when the send of the end-of-stream marker returns after k > 0 chunks, the
\* messages sent for this user message are the processing notice, the k chunks
\* as partial=true messages in the order produced, and the partial=false marker
\* with empty content; and the Turn appended to the log is the concatenation.
C5_StreamingCompletion ==
    [][\A w \in Conns :
          (Sends(w, "end") /\ conn[w].chunks # <<>>) =>
              /\ Sent(w) =
                    <<Processing>> \o Partials(conn[w].chunks) \o <<EndOfStream>>
              /\ TurnAppended(conn[w].cid,
                              Message("assistant", Concat(conn[w].chunks)))]_vars

\* C6: when the agent's reply came as one complete response and not in chunks,
\* the messages sent for the user message are the processing notice and one
\* partial=false assistant message with the full text, and the Turn appended
\* is that text.
C6_NonStreamingFallback ==
    [][\A w \in Conns :
          (/\ conn[w].whole /\ ~conn[w].gone
           /\ conn[w].pc \in {"full", "end"}
           /\ conn'[w].pc = "recv") =>
              /\ Sent(w) =
                    <<Processing,
                      Json("assistant", conn[w].full_response, "false")>>
              /\ TurnAppended(conn[w].cid,
                              Message("assistant", conn[w].full_response))]_vars

RegistriesUnchanged ==
    /\ mcp_clients' = mcp_clients
    /\ agents' = agents
    /\ active_connections' = active_connections
    /\ client' = client

\* connection w waits for its next message and no error has happened on it
BetweenMessages(w) ==
    conn[w].pc = "recv" /\ ~hist[w].errors /\ SoleUse(w)

\* the log of connection w's Session: one user Turn per query asked, in the
\* order asked, each followed by one assistant Turn
Alternating(w) ==
    LET m == chat_histories[conn[w].cid].messages
        a == hist[w].asked
    IN /\ chat_histories[conn[w].cid].present
       /\ Len(m) = 2 * Len(a)
       /\ \A i \in 1..Len(a) :
             /\ m[2 * i - 1] = Message("user", a[i])
             /\ m[2 * i].role = "assistant"

\* C7, as stated: between two messages of a connection that is the only one of
\* its client identifier and has seen no error, the Turn log is the N user Turns
\* sent, in order, alternating with N assistant Turns.
C7_TurnLogOrdering ==
    \A w \in Conns : BetweenMessages(w) => Alternating(w)

\* C7, amended: the same, when every reply of the agent had some content.
C7_TurnLogOrderingNonEmptyReplies ==
    \A w \in Conns : (BetweenMessages(w) /\ ~hist[w].silent) => Alternating(w)

C7_Witness ==
    \E w \in Conns :
        /\ BetweenMessages(w) /\ ~hist[w].silent
        /\ Len(hist[w].asked) = MaxSoloMsgs
        /\ Len(chat_histories[conn[w].cid].messages) = 2 * MaxSoloMsgs

AllRegistries == {"mcp_clients", "agents", "chat_histories"}

\* C8: when the send of the agent-error message returns, that message is the
\* one partial=false assistant message of the reply and carries the error text;
\* the step appends the error text as an assistant Turn to a log that still
\* holds the user's Turn, the Session is registered with its transport
\* connection open, no registry and no transport connection has changed, and
\* the handler is back at receiving.
C8_AgentErrorIsPerMessage ==
    [][\A w \in Conns :
          Sends(w, "agent_err") =>
              LET c == conn[w].cid IN
              /\ Outbound(conn[w]) = Json("assistant", AgentErrorText, "false")
              /\ \A i \in 1..Len(conn[w].out) : conn[w].out[i].partial # "false"
              /\ RegistriesUnchanged
              /\ TurnAppended(c, Message("assistant", AgentErrorText))
              /\ \E i \in 1..Len(chat_histories[c].messages) :
                    chat_histories[c].messages[i] =
                        Message("user", conn[w].user_query)
              /\ Registered(Cur, c) = AllRegistries
              /\ client[mcp_clients[c]].open
              /\ conn'[w].pc = "recv"]_vars

\* C9: a payload that is no JSON takes the handler to the send of the
\* invalid-format notice without touching a registry, a Turn log or a transport
\* connection; when that send returns, the notice is the only message sent for
\* the payload, still nothing else has changed, and the handler is back at
\* receiving without having run the agent.
C9_MalformedInput ==
    [][\A w \in Conns :
          /\ (conn'[w].received # conn[w].received
                /\ conn'[w].payload = "malformed") =>
                 /\ conn'[w].pc = "parse_err"
                 /\ conn'[w].out = <<>>
                 /\ RegistriesUnchanged
                 /\ chat_histories' = chat_histories
          /\ Sends(w, "parse_err") =>
                 /\ conn[w].payload = "malformed"
                 /\ Sent(w) = <<Json("system", InvalidFormatText, "absent")>>
                 /\ RegistriesUnchanged
                 /\ chat_histories' = chat_histories
                 /\ conn'[w].pc = "recv"]_vars

C9_Witness ==
    \E w \in Conns :
        /\ conn[w].pc = "parse_err" /\ ~conn[w].gone
        /\ conn[w].payload = "malformed"
        /\ Registered(Cur, conn[w].cid) = AllRegistries

\* connection w's task enters its finally block from outside MCPClient.cleanup
EntersFinally(w) ==
    /\ conn[w].pc \notin {"idle", "closed", "cu_sess", "cu_streams"}
    /\ conn'[w].pc = "closed" \/ conn'[w].after = "finally"

\* C10: the release steps always end with the client identifier in none of the
\* registries; run when no transport client is registered for it (as the second
\* of two runs in a row is), they end at once, without an error and without
\* touching any transport connection.
C10_ReleaseIdempotent ==
    [][\A w \in Conns :
          /\ (conn[w].pc # "closed" /\ conn'[w].pc = "closed") =>
                 Registered(Cur, conn[w].cid)' = {}
          /\ (EntersFinally(w) /\ mcp_clients[conn[w].cid] = NoObj) =>
                 /\ conn'[w].pc = "closed"
                 /\ client' = client]_vars

C10_Witness ==
    /\ conn[1].pc = "closed" /\ conn[2].pc = "closed"
    /\ conn[1].cid = conn[2].cid
    /\ \E o \in Objs : client[o].exit_calls = 1 /\ ~client[o].open
                         /\ client[o].opens = 1
    /\ \A o \in Objs : client[o].exit_calls <= 1

\* The state of a connection in the state machine of the protocol: 0 not yet
\* opened, 1 CONNECTED, 2 SESSION_ACTIVE, 3 in its finally block, 4 CLOSED
Phase(L) ==
    CASE L.pc = "idle" -> 0
      [] L.pc \in {"welcome", "sse_enter", "handshake", "tools_init"} -> 1
      [] L.pc \in {"cu_sess", "cu_streams"} ->
            IF L.after = "finally" THEN 3 ELSE 1
      [] L.pc = "closed" -> 4
      [] OTHER -> 2

\* C11: a connection never goes back in CONNECTED -> SESSION_ACTIVE -> finally
\* -> CLOSED, so it enters its finally block once; it becomes SESSION_ACTIVE
\* only with the transport client get_mcp_client returned; it takes a payload
\* only when SESSION_ACTIVE; and once CLOSED it never changes again.
C11_ConnectionStateMachine ==
    [][\A w \in Conns :
          /\ conn[w].pc = "closed" => conn'[w] = conn[w]
          /\ conn'[w] # conn[w] =>
                LET from == Phase(conn[w])
                    to == Phase(conn'[w])
                IN /\ to >= from
                   /\ (from < 2 /\ to = 2) =>
                          /\ from = 1
                          /\ conn'[w].mcp_client # NoObj
                          /\ conn'[w].mcp_client = mcp_clients'[conn[w].cid]
                   /\ conn'[w].received > conn[w].received =>
                          /\ from = 2
                          /\ conn[w].mcp_client # NoObj
                   /\ (from < 3 /\ to >= 3) =>
                          active_connections'[conn[w].cid] = NoObj]_vars

C11_Witness ==
    \E w \in Conns :
        /\ Phase(conn[w]) = 3
        /\ conn[w].received > 0
        /\ conn[w].mcp_client # NoObj

\* cleanup's awaited __aexit__ raised in this step of connection w's finally block
RaisedInFinally(w) ==
    /\ conn[w].pc \in {"cu_sess", "cu_streams"}
    /\ conn[w].after = "finally"
    /\ conn'[w].pc \notin {"cu_sess", "cu_streams"}
    /\ IF conn[w].pc = "cu_sess"
       THEN client'[conn[w].cl].session_context
       ELSE client'[conn[w].cl].streams_context

\* C12: when the transport client's cleanup hits an exception, in the finally
\* block of a connection or in shutdown_event, the exception goes no further
\* (the finally block ends, shutdown_event goes on to its end), and the client
\* identifier is then in none of the registries.
C12_ReleaseBestEffort ==
    [][/\ \A w \in Conns :
             RaisedInFinally(w) =>
                 /\ conn'[w].pc = "closed"
                 /\ Registered(Cur, conn[w].cid)' = {}
       /\ (shutdown.pc # "done" /\ shutdown'.pc = "done") =>
             \A c \in shutdown'.raised : Registered(Cur, c)' = {}]_vars

\* C13: once shutdown_event has returned, the transport of every client it
\* listed is closed, and the client identifiers it listed are in none of the
\* registries.
C13_ShutdownReleasesAll ==
    shutdown.pc = "done" =>
        \A it \in shutdown.listed :
            /\ ~client[it[2]].open
            /\ Registered(Cur, it[1]) = {}

\* C14: whenever every task is suspended at an await, each client identifier is
\* either in all three of mcp_clients, agents and chat_histories or in none.
C14_AtomicRegistration ==
    \A c \in Clients : Registered(Cur, c) \in {{}, AllRegistries}

\* the transport clients registered under client identifier c: the MCPClient of
\* mcp_clients and the one whose session the tools of agents[c] hold
TransportsOf(c) == {mcp_clients[c], agents[c]} \ {NoObj}

\* C15: a transport client is registered under, used by the agent of, and
\* handed to the connections of, only the client identifier whose get_mcp_client
\* created it; no two client identifiers share one; and a transport is
\* connected at most once in its life, so a released one is never used again.
C15_ExclusiveOwnership ==
    /\ \A c \in Clients : \A o \in TransportsOf(c) : conn[o].cid = c
    /\ \A c, d \in Clients : c # d => TransportsOf(c) \cap TransportsOf(d) = {}
    /\ \A w \in Conns :
          conn[w].mcp_client # NoObj => conn[conn[w].mcp_client].cid = conn[w].cid
    /\ \A o \in Objs : client[o].opens <= 1

\* two client identifiers hold a Session each
C15_Witness ==
    /\ \A c \in Clients : Registered(Cur, c) = AllRegistries
    /\ \A w \in Conns : conn[w].mcp_client = w /\ client[w].open

\* C16: a connection reads a payload only at the top of its loop, with nothing
\* of the payload before it left to send or to record; and the step in which
\* the send of the end-of-stream marker returns appends the reply as the
\* assistant Turn and goes back to reading, so that the Turn is in the log
\* before the next payload is read.
C16_SequentialHandling ==
    [][\A w \in Conns :
          /\ conn'[w].received > conn[w].received =>
                /\ conn[w].pc = "recv"
                /\ conn[w].full_response = <<>>
                /\ conn[w].chunks = <<>>
                /\ ~conn[w].has_streamed_content
          /\ Sends(w, "end") =>
                /\ TurnAppended(conn[w].cid,
                                Message("assistant", conn[w].full_response))
                /\ conn'[w].pc = "recv"]_vars

\* C17: once the agent call of one connection hangs, that connection stays as
\* it is, and the connection of another client identifier goes on: it always
\* gets back to reading its next message or ends (unless its own agent call
\* hangs), its reply is recorded when the end-of-stream marker is sent, and
\* once its browser is gone it reaches the end of its finally block.
C17_HungCallIsolated ==
    /\ [][conn[Solo].pc = "hung" =>
             /\ conn'[Solo] = conn[Solo]
             /\ Sends(Other, "end") =>
                   /\ TurnAppended(conn[Other].cid,
                                   Message("assistant", conn[Other].full_response))
                   /\ conn'[Other].pc = "recv"]_vars
    /\ (conn[Solo].pc = "hung" /\ Alive(Other)) ~>
           conn[Other].pc \in {"recv", "closed", "hung"}
    /\ (conn[Solo].pc = "hung" /\ conn[Other].gone) ~>
           conn[Other].pc \in {"closed", "hung"}

\* the second connection has been answered while the first is stuck
C17_Witness ==
    /\ conn[Solo].pc = "hung"
    /\ conn[Other].pc = "recv" /\ conn[Other].received > 0
    /\ client[Other].open
    /\ Len(chat_histories[conn[Other].cid].messages) = 2
    /\ chat_histories[conn[Other].cid].messages[2].role = "assistant"

\* the normalisation of the arguments of the invoked tool raised
NormalisationRaised ==
    tools[tool.name].list = "normalized" /\ Malformed(tool.items)

\* C18: whatever the tool and its arguments, an invocation ends by returning a
\* string and never by raising; when the broker call raised, or the
\* normalisation of the arguments did, the string returned is the error text.
C18_ToolErrorsBecomeStrings ==
    tool.pc = "returned" =>
        /\ ~tool.raised
        /\ tool.ret \in {"text", "error"}
        /\ (tool.broker = "raised" \/ NormalisationRaised) => tool.ret = "error"

\* a broker call that raised inside a tool
C18_Witness ==
    /\ tool.pc = "returned"
    /\ tool.broker = "raised"
    /\ tool.ret = "error"

\* the arguments claim C19 is about
EnumLike == {"exchange", "action", "price_type", "product"}

\* C19: for every tool and every value of its exchange, action, price_type and
\* product arguments, the broker call gets the upper-cased value (an argument
\* the tool leaves out of the call is the empty string).
C19_UpperCasedArguments ==
    (tool.pc = "returned" /\ tool.calls # <<>>) =>
        \A p \in ArgsOf(tool.name) \cap EnumLike :
            IF p \in DOMAIN tool.calls[1].params
            THEN tool.calls[1].params[p] = upper(tool.args[p])
            ELSE tool.args[p] = <<>>

\* C20 as stated: every invocation has made exactly one broker call.
C20_ExactlyOneBrokerCall ==
    tool.pc = "returned" => Len(tool.calls) = 1

\* C20: an invocation makes at most one broker call, of the one method of its
\* tool, and makes none only when the normalisation of its arguments raised; a
\* broker call that raised is not made again.
C20_AtMostOneBrokerCall ==
    tool.pc = "returned" =>
        /\ Len(tool.calls) <= 1
        /\ Len(tool.calls) = 0 <=> NormalisationRaised
        /\ \A i \in 1..Len(tool.calls) :
               tool.calls[i].method = tools[tool.name].method

\* an order-placing tool whose broker call raised
C20_Witness ==
    /\ tool.pc = "returned"
    /\ tool.name \in {"place_order", "place_split_order"}
    /\ tool.broker = "raised"
    /\ Len(tool.calls) = 1

\* C21: the broker method an invocation calls is the method of no other tool:
\* no two tools of the registry forward to the same method.
C21_OneToolPerMethod ==
    (tool.pc = "returned" /\ tool.calls # <<>>) =>
        \A t \in ToolNames :
            tools[t].method = tool.calls[1].method => t = tool.name

Welcome == Json("assistant", WelcomeText, "absent")

\* C22: a connection awaits the welcome send once, as the first thing after it
\* is accepted; when that send returns nothing else has been sent and
\* get_mcp_client has not been called; and while get_mcp_client runs, and when
\* it has failed, the welcome is the one message the browser has got.
C22_WelcomeFirst ==
    [][\A w \in Conns :
          conn'[w] # conn[w] =>
             /\ conn'[w].pc = "welcome" => conn[w].pc \in {"idle", "welcome"}
             /\ IF conn[w].pc = "welcome"
                THEN Sends(w, "welcome") =>
                        /\ conn[w].out = <<>>
                        /\ Outbound(conn[w]) = Welcome
                        /\ conn[w].mcp_client = NoObj /\ client[w].opens = 0
                        /\ conn'[w].out = <<Welcome>>
                ELSE conn[w].pc \in SendSites => Outbound(conn[w]) # Welcome
             /\ (\/ conn'[w].pc \in {"sse_enter", "handshake", "tools_init"}
                 \/ conn'[w].failed # NotFailed) =>
                   conn'[w].out = <<Welcome>>]_vars

\* session creation has failed after the welcome
C22_Witness ==
    \E w \in Conns :
        /\ conn[w].pc = "closed"
        /\ conn[w].failed # NotFailed
        /\ conn[w].out = <<Welcome>>

\* C23: the step that reads a payload which is JSON and carries no text (no
\* content, or content that is empty once stripped) sends nothing, appends no
\* Turn, does not run the agent, changes no registry and leaves the handler
\* waiting for the next payload.
C23_EmptyContentIgnored ==
    [][\A w \in Conns :
          (/\ conn'[w].received > conn[w].received
           /\ conn'[w].payload # "malformed"
           /\ conn'[w].user_query = <<>>) =>
              /\ conn'[w].pc = "recv"
              /\ conn'[w].out = <<>>
              /\ chat_histories' = chat_histories
              /\ RegistriesUnchanged]_vars

\* C24: a step of the finally block of one connection changes nothing of the
\* Session that another connection of the same client identifier, which is in
\* its message loop, is using: its registry entries stay and its transport
\* client is left as it is.
C24_CleanupSparesSessionInUse ==
    [][\A w, v \in Conns :
          (/\ w # v
           /\ conn'[w] # conn[w]
           /\ Phase(conn'[w]) >= 3
           /\ Phase(conn[v]) = 2
           /\ conn[v].cid = conn[w].cid) =>
              LET c == conn[v].cid
              IN /\ mcp_clients'[c] = mcp_clients[c]
                 /\ agents'[c] = agents[c]
                 /\ chat_histories'[c] = chat_histories[c]
                 /\ client'[conn[v].mcp_client] = client[conn[v].mcp_client]]_vars

\* C25: when get_mcp_client returns to a connection, the client identifier is
\* in all three registries and the client returned is connected: its transport
\* is open and neither of its contexts has been exited.
C25_ReturnedSessionComplete ==
    [][\A w \in Conns :
          (Phase(conn[w]) = 1 /\ conn'[w].pc = "recv") =>
              LET o == conn'[w].mcp_client
              IN /\ Registered(Cur, conn[w].cid)' = AllRegistries
                 /\ o # NoObj
                 /\ client'[o].open
                 /\ client'[o].connected /\ client'[o].session
                 /\ client'[o].session_context /\ client'[o].streams_context]_vars

\* the messages sent for the current payload when connection w takes its step
SentBy(w) ==
    IF conn[w].pc \in SendSites /\ ~conn[w].gone THEN Sent(w) ELSE conn[w].out

Closing(msgs) ==
    {i \in DOMAIN msgs : msgs[i].role = "assistant" /\ msgs[i].partial = "false"}

\* C26: when the handler goes back to receiving after a user message with
\* text, exactly one partial=false assistant message has been sent for it.
C26_ReplyIsClosed ==
    [][\A w \in Conns :
          (/\ conn[w].user_query # <<>>
           /\ conn[w].pc # "recv"
           /\ conn'[w].pc = "recv") =>
              Cardinality(Closing(SentBy(w))) = 1]_vars

AgentError == Json("assistant", AgentErrorText, "false")

\* C27: when the send of the agent-error message returns, the messages sent
\* for the user message are the processing notice, the responses relayed
\* before the agent raised, all partial=true, and the one partial=false
\* message with the error text: no end-of-stream marker.  The step appends
\* nothing to the Turn log but the error text alone, once.
C27_AgentErrorAfterChunks ==
    [][\A w \in Conns :
          (conn'[w] # conn[w] /\ Sends(w, "agent_err")) =>
              LET c == conn[w].cid
                  relayed == conn[w].out
              IN /\ Outbound(conn[w]) = AgentError
                 /\ relayed # <<>> /\ relayed[1] = Processing
                 /\ Len(relayed) >= 1 + Len(conn[w].chunks)
                 /\ \A i \in 2..Len(relayed) :
                       /\ relayed[i].role = "assistant"
                       /\ relayed[i].partial = "true"
                       /\ relayed[i].content # <<>>
                 /\ \A i \in 1..Len(conn[w].chunks) :
                       relayed[i + 1].content = conn[w].chunks[i]
                 /\ \/ chat_histories' = chat_histories
                    \/ /\ TurnAppended(c, Message("assistant", AgentErrorText))
                       /\ \A d \in Clients \ {c} :
                             chat_histories'[d] = chat_histories[d]]_vars

\* the agent has raised after relaying a chunk
C27_Witness ==
    \E w \in Conns :
        /\ conn[w].pc = "agent_err" /\ ~conn[w].gone
        /\ conn[w].chunks # <<>>
        /\ chat_histories[conn[w].cid].present

\* C28: when MCPClient.cleanup() returns, whether or not an exit raised, both
\* contexts of the client have been exited (the transport is closed), both
\* handles and the session are cleared and is_connected is false; and a client
\* never holds more than one open connection.
C28_CleanupReleasesEverything ==
    [][\A w \in Conns :
          (/\ conn[w].pc \in {"cu_sess", "cu_streams"}
           /\ conn'[w].pc \notin {"cu_sess", "cu_streams"}) =>
              LET o == conn[w].cl
              IN /\ ~client'[o].session_context
                 /\ ~client'[o].streams_context
                 /\ ~client'[o].open
                 /\ ~client'[o].session
                 /\ ~client'[o].connected
                 /\ client'[o].opens - client'[o].exit_calls <= 1]_vars

\* C29: a step of the status check changes no registry, no Turn log and no
\* registered transport; when it returns, its temporary transport connection
\* is closed, it reports "connected" exactly when the probe connection
\* succeeded and "error" exactly when it raised.
C29_StatusCheckIsClean ==
    [][status' # status =>
          /\ RegistriesUnchanged
          /\ chat_histories' = chat_histories
          /\ (status'.pc = "returned" /\ status.pc # "returned") =>
                /\ ~status'.temp_client.open
                /\ status'.ret = "connected" <=> status'.probe = "ok"
                /\ status'.ret = "error" <=> status'.probe = "raised"]_vars

\* C30: when main of the terminal client has ended after connect_to_sse_server
\* returned, whatever the exit path, mcp_client.disconnect() has been called.
C30_TerminalDisconnects ==
    (main.pc = "returned" /\ main.connected) => main.disconnects >= 1

====
